---- MODULE Spec2Model ----
(***************************************************************************)
(* State-machine model of the stateful list components of the "React Lists *)
(* and Keys" guide: DynamicList (addItem / removeItem / updateItem),        *)
(* ListWithForms (handleChange) and SortableList (filterByCategory /        *)
(* sortItems) and DraggableList (handleDragStart / handleDrop), and of the   *)
(* class examples of the SOLID-principles file.  Each component keeps one   *)
(* useState sequence of records; a handler computes a replacement sequence  *)
(* from the sequence its render captured and hands it to the setter.        *)
(***************************************************************************)
EXTENDS Integers, Sequences, FiniteSets, TLC

VARIABLES
    items,          \* DynamicList: the state held by useState (last value set)
    closure,        \* DynamicList: the `items` the handlers of the last render captured
    formItems,      \* ListWithForms: const [items, setItems] = useState([...])
    sortableItems,  \* SortableList: const [items, setItems] = useState([...])
    filtered,       \* the sequence returned by the last filterByCategory call
    op,             \* history: the handler that ran last, with its arguments
    prev,           \* history: the state the component held when that handler was called
    repeatOf,       \* history: when the last two calls were removeItem with the same
                    \* id, the number of records the first of them removed; else -1
    step,           \* history: progress along the script Add, Remove(1), Update(2,"X")
                    \* run from the initial state; -1 once another call was made
    usedIds,        \* history: identifiers held by a record in any earlier state
    addCalls,       \* history: addItem calls so far; -1 once removeItem was called
    dragItems,      \* DraggableList: const [items, setItems] = useState([...])
    dataTransfer,   \* the 'text/plain' data of the drag in progress
    call,           \* the last direct call of a function or method, with its result
    repoClass,      \* class of the repository injected into the TaskService
    notifierClass,  \* class of the notification service injected into the TaskService
    pc,             \* the statement of the task example that runs next
    task,           \* the object bound to `task` / `newTask` in the task example
    log,            \* console output of the task example
    error           \* the exception the task example ended with, or "none"

listVars == <<items, closure, formItems>>
sortVars == <<sortableItems, filtered>>
listHistory == <<step, usedIds, addCalls>>
dragVars == <<dragItems, dataTransfer>>
solidVars == <<call, repoClass, notifierClass, pc, task, log, error>>

vars == <<items, closure, formItems, sortableItems, filtered, op, prev, repeatOf,
          step, usedIds, addCalls, dragItems, dataTransfer,
          call, repoClass, notifierClass, pc, task, log, error>>

(***************************************************************************)
(* Bounds of the exploration.                                               *)
(***************************************************************************)
MaxLen == 3         \* addItem is explored while the list is shorter than this
MaxId == 3          \* largest identifier addItem is explored up to
MaxTextLen == 14    \* longest text the Update button is explored up to
MaxSortLen == 3     \* longest SortableList sequence drawn as an input
MaxCalls == 3       \* addItem calls counted when handlers run without a render between

(***************************************************************************)
(* JavaScript numbers that occur as identifiers: the positive integers and  *)
(* -Infinity, which is what Math.max() returns when given no arguments.     *)
(* -Infinity is encoded as an integer below every other identifier; the     *)
(* arithmetic and the string conversion treat it as IEEE-754 does.          *)
(***************************************************************************)
NegInfinity == -1000000

\* x + 1 on JavaScript numbers: -Infinity + 1 is -Infinity
PlusOne(x) == IF x = NegInfinity THEN NegInfinity ELSE x + 1

\* Math.max(...values): the largest value, -Infinity for no values
RECURSIVE MathMax(_)
MathMax(values) ==
    IF values = <<>> THEN NegInfinity
    ELSE LET rest == MathMax(Tail(values))
         IN  IF Head(values) > rest THEN Head(values) ELSE rest

\* conversion of a number inside a template literal: `${n}`
NumberToString(n) == IF n = NegInfinity THEN "-Infinity" ELSE ToString(n)

\* items.map(item => item.id)
Ids(S) == [i \in DOMAIN S |-> S[i].id]

\* the set of identifiers held by the records of S
IdSet(S) == {S[i].id : i \in DOMAIN S}

(***************************************************************************)
(* DynamicList                                                              *)
(***************************************************************************)
InitialItems == << [id |-> 1, text |-> "Item 1"], [id |-> 2, text |-> "Item 2"] >>

\* the new identifier taken from the length: items.length + 1
newId_length(S) == Len(S) + 1

\* const newId = Math.max(...items.map(item => item.id)) + 1
newId(S) == PlusOne(MathMax(Ids(S)))

\* addItem with the new record put in front: [{ id: newId, ... }, ...items]
addItem_prepend(S) ==
    <<[id |-> newId(S), text |-> "Item " \o NumberToString(newId(S))]>> \o S

\* [...items, { id: newId, text: `Item ${newId}` }]
addItem(S) ==
    Append(S, [id |-> newId(S), text |-> "Item " \o NumberToString(newId(S))])

\* removeItem with the test inverted: items.filter(item => item.id === id)
removeItem_eq(S, id) == SelectSeq(S, LAMBDA item : item.id = id)

\* removeItem by position: items.splice(items.findIndex(...), 1), which drops
\* the first match only and, for index -1, the last record
removeItem_splice(S, id) ==
    LET found == {i \in DOMAIN S : S[i].id = id}
        index == IF found = {} THEN Len(S)
                 ELSE CHOOSE i \in found : \A j \in found : i <= j
    IN  [k \in 1 .. (IF S = <<>> THEN 0 ELSE Len(S) - 1) |->
            IF k < index THEN S[k] ELSE S[k + 1]]

\* items.filter(item => item.id !== id)
removeItem(S, id) == SelectSeq(S, LAMBDA item : item.id # id)

\* updateItem without the test: every record gets the new text
updateItem_all(S, id, newText) ==
    [i \in DOMAIN S |-> [S[i] EXCEPT !.text = newText]]

\* updateItem with the test inverted: item.id !== id
updateItem_neq(S, id, newText) ==
    [i \in DOMAIN S |-> IF S[i].id # id THEN [S[i] EXCEPT !.text = newText] ELSE S[i]]

\* items.map(item => item.id === id ? { ...item, text: newText } : item)
updateItem(S, id, newText) ==
    [i \in DOMAIN S |-> IF S[i].id = id THEN [S[i] EXCEPT !.text = newText] ELSE S[i]]

(***************************************************************************)
(* ListWithForms                                                            *)
(***************************************************************************)
InitialFormItems == << [id |-> 1, text |-> "Item 1"], [id |-> 2, text |-> "Item 2"] >>

\* items.map(item => item.id === id ? { ...item, text: newValue } : item)
handleChange(S, id, newValue) ==
    [i \in DOMAIN S |-> IF S[i].id = id THEN [S[i] EXCEPT !.text = newValue] ELSE S[i]]

(***************************************************************************)
(* SortableList                                                             *)
(***************************************************************************)
InitialSortableItems ==
    << [id |-> 1, text |-> "Apple", category |-> "fruit"],
       [id |-> 2, text |-> "Banana", category |-> "fruit"],
       [id |-> 3, text |-> "Carrot", category |-> "vegetable"] >>

\* filterByCategory with the test inverted: item.category !== category
filterByCategory_neq(S, category) == SelectSeq(S, LAMBDA item : item.category # category)

\* items.filter(item => item.category === category)
filterByCategory(S, category) == SelectSeq(S, LAMBDA item : item.category = category)

\* The letters of the texts that are sorted, as their positions in the
\* alphabet: the primary collation weights localeCompare compares by.
CollationKey(text) ==
    CASE text = "Apple"   -> <<1, 16, 16, 12, 5>>
      [] text = "Apricot" -> <<1, 16, 18, 9, 3, 15, 20>>
      [] text = "Banana"  -> <<2, 1, 14, 1, 14, 1>>
      [] text = "Carrot"  -> <<3, 1, 18, 18, 15, 20>>
      [] text = ""        -> <<>>

\* comparison of two weight sequences, position by position; a proper
\* prefix sorts first
RECURSIVE CompareKeys(_, _)
CompareKeys(k1, k2) ==
    IF k1 = <<>> /\ k2 = <<>> THEN 0
    ELSE IF k1 = <<>> THEN -1
    ELSE IF k2 = <<>> THEN 1
    ELSE IF Head(k1) < Head(k2) THEN -1
    ELSE IF Head(k1) > Head(k2) THEN 1
    ELSE CompareKeys(Tail(k1), Tail(k2))

\* a.localeCompare(b): negative, zero or positive
localeCompare(a, b) == CompareKeys(CollationKey(a), CollationKey(b))

\* the comparator with its arguments exchanged: b.text.localeCompare(a.text)
compareFn_swapped(a, b) == localeCompare(b.text, a.text)

\* (a, b) => a.text.localeCompare(b.text)
compareFn(a, b) == localeCompare(a.text, b.text)

\* Array.prototype.sort is stable: an element is placed after every element
\* that does not compare greater than it
RECURSIVE InsertSorted(_, _)
InsertSorted(x, S) ==
    IF S = <<>> THEN <<x>>
    ELSE IF compareFn(S[Len(S)], x) <= 0 THEN Append(S, x)
    ELSE Append(InsertSorted(x, SubSeq(S, 1, Len(S) - 1)), S[Len(S)])

RECURSIVE ArraySort(_)
ArraySort(S) ==
    IF S = <<>> THEN <<>>
    ELSE InsertSorted(S[Len(S)], ArraySort(SubSeq(S, 1, Len(S) - 1)))

\* const sorted = [...items].sort((a, b) => a.text.localeCompare(b.text))
sortItems(S) == ArraySort(S)

(***************************************************************************)
(* Inputs of the handlers.                                                  *)
(***************************************************************************)
\* identifiers a handler is called with: present ones and absent ones
IdInputs == (0 .. MaxId) \cup {NegInfinity}

\* texts updateItem is called with: the Update button's `Updated ${item.text}`
\* for a rendered item, and a free text
TextInputs(S) ==
    {"X"} \cup { t \in {"Updated " \o S[i].text : i \in DOMAIN S} : Len(t) <= MaxTextLen }

\* values the input box delivers to handleChange
ValueInputs == {"X"}

\* categories filterByCategory is called with: 'fruit' in the render, and others
CategoryInputs == {"fruit", "vegetable", "dairy"}

\* records a SortableList sequence is drawn from
SortableRecords ==
    { [id |-> 1, text |-> "Apple", category |-> "fruit"],
      [id |-> 2, text |-> "Banana", category |-> "fruit"],
      [id |-> 3, text |-> "Carrot", category |-> "vegetable"],
      [id |-> 4, text |-> "Apricot", category |-> "fruit"],
      [id |-> 5, text |-> "Banana", category |-> "vegetable"] }

\* sequences of distinct records, of length at most MaxSortLen
SortableInputs ==
    UNION { { S \in [1 .. n -> SortableRecords] :
                \A i, j \in 1 .. n : i # j => S[i] # S[j] } : n \in 0 .. MaxSortLen }

(***************************************************************************)
(* DraggableList                                                            *)
(***************************************************************************)
InitialDragItems ==
    << [id |-> 1, text |-> "Draggable 1"],
       [id |-> 2, text |-> "Draggable 2"],
       [id |-> 3, text |-> "Draggable 3"] >>

\* no drag has put data into the event's dataTransfer
NoData == [present |-> FALSE, data |-> ""]

InitDrag ==
    /\ dragItems = InitialDragItems
    /\ dataTransfer = NoData

\* NaN, encoded as an integer that is no identifier; it equals nothing
NaN == -2000000

\* parseInt(str) for the strings a drag carries: a decimal digit string gives
\* its number, the empty string and other text give NaN
ParseInt(str) ==
    IF \E n \in 0 .. 9 : ToString(n) = str
    THEN CHOOSE n \in 0 .. 9 : ToString(n) = str
    ELSE NaN

\* what reading an array at an index that holds no element gives
UndefinedItem == [undefined |-> TRUE]

\* items.findIndex(item => item.id === id), counted from 1; 0 stands for the
\* -1 that findIndex returns when no item matches
FindIndex(S, id) ==
    LET found == {i \in DOMAIN S : id # NaN /\ S[i].id = id}
    IN  IF found = {} THEN 0 ELSE CHOOSE i \in found : \A j \in found : i <= j

\* newItems[index], undefined outside the array
ElementAt(S, index) == IF index \in DOMAIN S THEN S[index] ELSE UndefinedItem

\* [newItems[d], newItems[t]] = [newItems[t], newItems[d]] on a copy of S: the
\* right side is read first, then position d and after it position t are
\* written; writing at -1 sets a property and no element of the array
SwapItems(S, d, t) ==
    LET first == ElementAt(S, t)
        second == ElementAt(S, d)
    IN  [k \in DOMAIN S |-> IF k = t THEN second ELSE IF k = d THEN first ELSE S[k]]

\* handleDrop(e, targetId) with e.dataTransfer.getData('text/plain') = data
handleDrop(S, data, targetId) ==
    SwapItems(S, FindIndex(S, ParseInt(data)), FindIndex(S, targetId))

\* text a drag that did not start on a list item carries
ExternalDragData == {"9", ""}

\* the list can be rendered: every element is a record (item.id is read)
Renders(S) == \A i \in DOMAIN S : S[i] # UndefinedItem

(***************************************************************************)
(* The classes of the SOLID-principles file.                                *)
(***************************************************************************)
\* class X extends Y; a class without extends has Object above it
Superclass(cls) ==
    CASE cls \in {"CreditCardPayment", "PayPalPayment", "BitcoinPayment"} -> "Payment"
      [] cls \in {"MySQLDatabase", "MongoDatabase"} -> "Database"
      [] cls = "MongoTaskRepository" -> "TaskRepository"
      [] cls \in {"EmailNotificationService", "SlackNotificationService"} -> "NotificationService"
      [] OTHER -> "Object"

\* the classes with the not-implemented methods, and the classes that extend them
BaseClasses == {"Payment", "Database", "TaskRepository", "NotificationService"}

ConcreteClasses ==
    {"CreditCardPayment", "PayPalPayment", "BitcoinPayment", "MySQLDatabase",
     "MongoDatabase", "MongoTaskRepository", "EmailNotificationService",
     "SlackNotificationService"}

\* MongoTaskRepository without its save(task) method
OwnMethods_noSave(cls) ==
    CASE cls \in {"Payment", "CreditCardPayment", "PayPalPayment", "BitcoinPayment"} -> {"process"}
      [] cls \in {"Database", "MySQLDatabase", "MongoDatabase"} -> {"save"}
      [] cls = "TaskRepository" -> {"save", "delete", "find"}
      [] cls = "MongoTaskRepository" -> {"delete", "find"}
      [] cls \in {"NotificationService", "EmailNotificationService",
                  "SlackNotificationService"} -> {"notify"}
      [] OTHER -> {}

\* the methods a class body defines
OwnMethods(cls) ==
    CASE cls \in {"Payment", "CreditCardPayment", "PayPalPayment", "BitcoinPayment"} -> {"process"}
      [] cls \in {"Database", "MySQLDatabase", "MongoDatabase"} -> {"save"}
      [] cls \in {"TaskRepository", "MongoTaskRepository"} -> {"save", "delete", "find"}
      [] cls \in {"NotificationService", "EmailNotificationService",
                  "SlackNotificationService"} -> {"notify"}
      [] OTHER -> {}

\* method lookup along the prototype chain: the class whose method runs
RECURSIVE ResolveMethod(_, _)
ResolveMethod(cls, m) ==
    IF cls = "Object" THEN "undefined"
    ELSE IF m \in OwnMethods(cls) THEN cls
    ELSE ResolveMethod(Superclass(cls), m)

\* messages of the errors the base classes throw
NotImplementedErrors ==
    {"process() method must be implemented", "save() method must be implemented",
     "Not implemented"}

\* const user = { email: 'user@example.com', slackId: 'U123456' }
ExampleUser == [defined |-> TRUE, email |-> "user@example.com", slackId |-> "U123456"]

\* the value of a property that an object does not have
UndefinedUser == [defined |-> FALSE, email |-> "", slackId |-> ""]

Returned(output) == [error |-> "none", output |-> output]
Thrown(message) == [error |-> message, output |-> ""]

\* the body of method m as class cls defines it, run with (message, user);
\* save and process log a fixed line, notify reads a property of user
MethodBody(cls, m, message, user) ==
    CASE cls = "Payment" -> Thrown("process() method must be implemented")
      [] cls = "CreditCardPayment" -> Returned("Processing credit card payment")
      [] cls = "PayPalPayment" -> Returned("Processing PayPal payment")
      [] cls = "BitcoinPayment" -> Returned("Processing Bitcoin payment")
      [] cls = "Database" -> Thrown("save() method must be implemented")
      [] cls = "MySQLDatabase" -> Returned("Saving to MySQL database:")
      [] cls = "MongoDatabase" -> Returned("Saving to MongoDB database:")
      [] cls = "TaskRepository" -> Thrown("Not implemented")
      [] cls = "NotificationService" -> Thrown("Not implemented")
      [] cls = "MongoTaskRepository" /\ m = "save" -> Returned("Saving task to MongoDB")
      [] cls = "MongoTaskRepository" /\ m = "delete" -> Returned("Deleting task from MongoDB")
      [] cls = "MongoTaskRepository" /\ m = "find" -> Returned("Finding task in MongoDB")
      [] cls = "EmailNotificationService" ->
            IF user.defined
            THEN Returned("Sending email to " \o user.email \o ": " \o message)
            ELSE Thrown("TypeError: Cannot read properties of undefined (reading 'email')")
      [] cls = "SlackNotificationService" ->
            IF user.defined
            THEN Returned("Sending Slack message to " \o user.slackId \o ": " \o message)
            ELSE Thrown("TypeError: Cannot read properties of undefined (reading 'slackId')")

\* instance.m(message, user) on an instance of cls
InvokeMethod(cls, m, message, user) ==
    IF ResolveMethod(cls, m) = "undefined"
    THEN Thrown("TypeError: " \o m \o " is not a function")
    ELSE MethodBody(ResolveMethod(cls, m), m, message, user)

\* new Task(id, title, description, assignee)
NewTask(id, title, assignee) ==
    [class |-> "Task", id |-> id, title |-> title, completed |-> "false",
     assignee |-> assignee]

\* MongoTaskRepository.find: return { id, title: 'Sample Task' }
FoundObject(id) ==
    [class |-> "Object", id |-> id, title |-> "Sample Task", completed |-> "undefined",
     assignee |-> UndefinedUser]

\* the classes instances are made of / injected
PaymentInputs == {"Payment", "CreditCardPayment", "PayPalPayment", "BitcoinPayment"}
DatabaseInputs == {"Database", "MySQLDatabase", "MongoDatabase"}
RepositoryInputs == {"TaskRepository", "MongoTaskRepository"}
NotifierInputs ==
    {"NotificationService", "EmailNotificationService", "SlackNotificationService"}

(***************************************************************************)
(* DashboardIIFE of the conditional-rendering notes.                        *)
(***************************************************************************)
\* a JavaScript value passed as the role prop: a string, or undefined when
\* the prop is absent
StringValue(str) == [type |-> "string", value |-> str]
Undefined == [type |-> "undefined", value |-> ""]

\* a === b: same type and same value
StrictEquals(a, b) == a.type = b.type /\ a.value = b.value

\* a two-way choice as in DashboardConditionalComponents:
\* role === "admin" ? admin : user
DashboardIIFE_ternary(role) ==
    IF StrictEquals(role, StringValue("admin")) THEN "Welcome, Admin!"
    ELSE "Welcome, User!"

\* if (role === "admin") ...; if (role === "user") ...; return sign-in
DashboardIIFE(role) ==
    IF StrictEquals(role, StringValue("admin")) THEN "Welcome, Admin!"
    ELSE IF StrictEquals(role, StringValue("user")) THEN "Welcome, User!"
    ELSE "Please sign in."

\* values of the role prop
RoleInputs ==
    {StringValue("admin"), StringValue("user"), StringValue("guest"),
     StringValue("Admin"), StringValue(""), Undefined}

NoCall == [fn |-> "none", arg |-> [type |-> "undefined", value |-> ""],
           error |-> "none", output |-> ""]

ClassArg(cls) == [type |-> "class", value |-> cls]

NoTask == [class |-> "undefined", id |-> 0, title |-> "", completed |-> "undefined",
           assignee |-> UndefinedUser]

\* const taskService = new TaskService(taskRepo, emailNotifier), before line 508
InitSolid ==
    /\ call = NoCall
    /\ repoClass = "MongoTaskRepository"
    /\ notifierClass = "EmailNotificationService"
    /\ pc = "createTask"
    /\ task = NoTask
    /\ log = <<>>
    /\ error = "none"

NoOp == [name |-> "none", id |-> 0, text |-> ""]

\* progress along the calls addItem(), removeItem(1), updateItem(2, "X") made
\* one after the other from the initial state
ScriptStep(cur, name, id, text) ==
    IF cur = 0 /\ name = "addItem" THEN 1
    ELSE IF cur = 1 /\ name = "removeItem" /\ id = 1 THEN 2
    ELSE IF cur = 2 /\ name = "updateItem" /\ id = 2 /\ text = "X" THEN 3
    ELSE -1

\* the state of the list components after their first render
InitLists ==
    /\ items = InitialItems
    /\ closure = InitialItems
    /\ formItems = InitialFormItems
    /\ op = NoOp
    /\ prev = <<>>
    /\ repeatOf = -1
    /\ step = 0
    /\ usedIds = {}
    /\ addCalls = 0

Init ==
    /\ InitLists
    /\ sortableItems = InitialSortableItems
    /\ filtered = <<>>
    /\ InitDrag
    /\ InitSolid

(***************************************************************************)
(* DynamicList and ListWithForms driven by clicks and input events: React   *)
(* renders again after each such event, so a step is the handler followed   *)
(* by the render that captures the new state.                               *)
(***************************************************************************)
\* onClick={addItem}
DoAddItem ==
    /\ Len(items) < MaxLen
    /\ newId(items) <= MaxId
    /\ items' = addItem(items)
    /\ closure' = items'
    /\ op' = [name |-> "addItem", id |-> 0, text |-> ""]
    /\ prev' = items
    /\ repeatOf' = -1
    /\ step' = ScriptStep(step, "addItem", 0, "")
    /\ usedIds' = usedIds \cup IdSet(items)
    /\ addCalls' = IF addCalls >= 0 THEN addCalls + 1 ELSE -1
    /\ UNCHANGED <<formItems, sortVars, dragVars, solidVars>>

\* onClick={() => removeItem(item.id)}
DoRemoveItem ==
    \E id \in IdInputs :
        /\ items' = removeItem(items, id)
        /\ op' = [name |-> "removeItem", id |-> id, text |-> ""]
        /\ prev' = items
        /\ closure' = items'
        /\ repeatOf' = IF op.name = "removeItem" /\ op.id = id
                       THEN Len(prev) - Len(items) ELSE -1
        /\ step' = ScriptStep(step, "removeItem", id, "")
        /\ usedIds' = usedIds \cup IdSet(items)
        /\ addCalls' = -1
        /\ UNCHANGED <<formItems, sortVars, dragVars, solidVars>>

\* onClick={() => updateItem(item.id, `Updated ${item.text}`)}
DoUpdateItem ==
    \E id \in IdInputs : \E newText \in TextInputs(items) :
        /\ items' = updateItem(items, id, newText)
        /\ op' = [name |-> "updateItem", id |-> id, text |-> newText]
        /\ closure' = items'
        /\ prev' = items
        /\ repeatOf' = -1
        /\ step' = ScriptStep(step, "updateItem", id, newText)
        /\ usedIds' = usedIds \cup IdSet(items)
        /\ UNCHANGED <<addCalls, formItems, sortVars, dragVars, solidVars>>

\* onChange={(e) => handleChange(item.id, e.target.value)}
DoHandleChange ==
    \E id \in IdInputs : \E newValue \in ValueInputs :
        /\ formItems' = handleChange(formItems, id, newValue)
        /\ op' = [name |-> "handleChange", id |-> id, text |-> newValue]
        /\ prev' = formItems
        /\ repeatOf' = -1
        /\ UNCHANGED <<items, closure, listHistory, sortVars, dragVars, solidVars>>

Next ==
    \/ DoAddItem
    \/ DoRemoveItem
    \/ DoUpdateItem
    \/ DoHandleChange

Spec == Init /\ [][Next]_vars

(***************************************************************************)
(* DynamicList with the render as a step of its own: a handler reads the    *)
(* `items` its render captured and calls setItems; the handlers of that     *)
(* render stay in place, and keep reading the same `items`, until React     *)
(* renders the component again.                                             *)
(***************************************************************************)
\* onClick={addItem}, run by the handler of the last render
CallAddItem ==
    /\ Len(closure) < MaxLen
    /\ newId(closure) <= MaxId
    /\ addCalls < MaxCalls
    /\ items' = addItem(closure)
    /\ op' = [name |-> "addItem", id |-> 0, text |-> ""]
    /\ prev' = items
    /\ repeatOf' = -1
    /\ step' = ScriptStep(step, "addItem", 0, "")
    /\ usedIds' = usedIds \cup IdSet(items)
    /\ addCalls' = IF addCalls >= 0 THEN addCalls + 1 ELSE -1
    /\ UNCHANGED <<closure, formItems, sortVars, dragVars, solidVars>>

\* onClick={() => removeItem(item.id)} of a rendered item
CallRemoveItem ==
    \E i \in DOMAIN closure :
        /\ items' = removeItem(closure, closure[i].id)
        /\ op' = [name |-> "removeItem", id |-> closure[i].id, text |-> ""]
        /\ prev' = items
        /\ repeatOf' = IF op.name = "removeItem" /\ op.id = closure[i].id
                       THEN Len(prev) - Len(items) ELSE -1
        /\ step' = ScriptStep(step, "removeItem", closure[i].id, "")
        /\ usedIds' = usedIds \cup IdSet(items)
        /\ addCalls' = -1
        /\ UNCHANGED <<closure, formItems, sortVars, dragVars, solidVars>>

\* onClick={() => updateItem(item.id, `Updated ${item.text}`)} of a rendered item
CallUpdateItem ==
    \E i \in DOMAIN closure :
        LET newText == "Updated " \o closure[i].text
        IN  /\ Len(newText) <= MaxTextLen
            /\ items' = updateItem(closure, closure[i].id, newText)
            /\ op' = [name |-> "updateItem", id |-> closure[i].id, text |-> newText]
            /\ prev' = items
            /\ repeatOf' = -1
            /\ step' = ScriptStep(step, "updateItem", closure[i].id, newText)
            /\ usedIds' = usedIds \cup IdSet(items)
            /\ UNCHANGED <<closure, addCalls, formItems, sortVars, dragVars, solidVars>>

\* React renders DynamicList again: the new handlers capture the current state
Render ==
    /\ closure # items
    /\ closure' = items
    /\ UNCHANGED <<items, formItems, op, prev, repeatOf, listHistory,
                   sortVars, dragVars, solidVars>>

NextRender ==
    \/ CallAddItem
    \/ CallRemoveItem
    \/ CallUpdateItem
    \/ Render

SpecRender == Init /\ [][NextRender]_vars

(***************************************************************************)
(* The class examples: direct calls, and the task example of lines 494-512  *)
(* run one statement at a time with a TaskService made of any of the        *)
(* repository and notification classes.                                     *)
(***************************************************************************)
InitSolidInputs ==
    /\ InitLists
    /\ sortableItems = InitialSortableItems
    /\ filtered = <<>>
    /\ InitDrag
    /\ call = NoCall
    /\ repoClass \in RepositoryInputs
    /\ notifierClass \in NotifierInputs
    /\ pc = "createTask"
    /\ task = NoTask
    /\ log = <<>>
    /\ error = "none"

\* the outcome of a statement that calls a method: an exception ends the run
AfterCall(outcome, nextPc) ==
    IF outcome.error = "none"
    THEN /\ log' = Append(log, outcome.output)
         /\ pc' = nextPc
         /\ error' = "none"
    ELSE /\ log' = log
         /\ pc' = "crashed"
         /\ error' = outcome.error

\* the next statement of: const newTask = taskService.createTask(taskData);
\* taskService.completeTask(newTask.id); console.log('... completed!')
RunTaskExample ==
    /\ pc \notin {"done", "crashed"}
    /\ CASE pc = "createTask" ->
              /\ task' = NewTask(1, "Learn SOLID Principles", ExampleUser)
              /\ pc' = "create_save"
              /\ UNCHANGED <<log, error>>
         [] pc = "create_save" ->
              /\ AfterCall(InvokeMethod(repoClass, "save", "", task.assignee), "create_notify")
              /\ UNCHANGED task
         [] pc = "create_notify" ->
              /\ AfterCall(InvokeMethod(notifierClass, "notify",
                                        "New task assigned: " \o task.title, task.assignee),
                           "complete_find")
              /\ UNCHANGED task
         [] pc = "complete_find" ->
              /\ AfterCall(InvokeMethod(repoClass, "find", "", task.assignee), "complete_mark")
              /\ task' = IF InvokeMethod(repoClass, "find", "", task.assignee).error = "none"
                         THEN FoundObject(task.id) ELSE task
         [] pc = "complete_mark" ->
              IF task.class = "Task"
              THEN /\ task' = [task EXCEPT !.completed = "true"]
                   /\ pc' = "complete_save"
                   /\ UNCHANGED <<log, error>>
              ELSE /\ pc' = "crashed"
                   /\ error' = "TypeError: task.complete is not a function"
                   /\ UNCHANGED <<task, log>>
         [] pc = "complete_save" ->
              /\ AfterCall(InvokeMethod(repoClass, "save", "", task.assignee), "complete_notify")
              /\ UNCHANGED task
         [] pc = "complete_notify" ->
              /\ AfterCall(InvokeMethod(notifierClass, "notify",
                                        "Task completed: " \o task.title, task.assignee),
                           "final_log")
              /\ UNCHANGED task
         [] pc = "final_log" ->
              /\ log' = Append(log, "SOLID Principles demonstration completed!")
              /\ pc' = "done"
              /\ UNCHANGED <<task, error>>
    /\ UNCHANGED <<call, repoClass, notifierClass>>
    /\ UNCHANGED <<listVars, listHistory, op, prev, repeatOf, sortVars, dragVars>>

\* instance.m(...) on a new instance of any of the classes
DoInvoke ==
    \E cls \in BaseClasses \cup ConcreteClasses : \E m \in OwnMethods(Superclass(cls)) \cup OwnMethods(cls) :
        /\ call' = [fn |-> m, arg |-> ClassArg(cls),
                    error |-> InvokeMethod(cls, m, "message", ExampleUser).error,
                    output |-> InvokeMethod(cls, m, "message", ExampleUser).output]
        /\ UNCHANGED <<repoClass, notifierClass, pc, task, log, error>>
        /\ UNCHANGED <<listVars, listHistory, op, prev, repeatOf, sortVars, dragVars>>

\* processor.processPayment(payment): payment.process()
DoProcessPayment ==
    \E cls \in PaymentInputs :
        /\ call' = [fn |-> "processPayment", arg |-> ClassArg(cls),
                    error |-> InvokeMethod(cls, "process", "", ExampleUser).error,
                    output |-> InvokeMethod(cls, "process", "", ExampleUser).output]
        /\ UNCHANGED <<repoClass, notifierClass, pc, task, log, error>>
        /\ UNCHANGED <<listVars, listHistory, op, prev, repeatOf, sortVars, dragVars>>

\* new UserService(database).saveUser(user): this.database.save(user)
DoSaveUser ==
    \E cls \in DatabaseInputs :
        /\ call' = [fn |-> "saveUser", arg |-> ClassArg(cls),
                    error |-> InvokeMethod(cls, "save", "", ExampleUser).error,
                    output |-> InvokeMethod(cls, "save", "", ExampleUser).output]
        /\ UNCHANGED <<repoClass, notifierClass, pc, task, log, error>>
        /\ UNCHANGED <<listVars, listHistory, op, prev, repeatOf, sortVars, dragVars>>

\* <DashboardIIFE role={role} />
DoDashboardIIFE ==
    \E role \in RoleInputs :
        /\ call' = [fn |-> "DashboardIIFE", arg |-> role, error |-> "none",
                    output |-> DashboardIIFE(role)]
        /\ UNCHANGED <<repoClass, notifierClass, pc, task, log, error>>
        /\ UNCHANGED <<listVars, listHistory, op, prev, repeatOf, sortVars, dragVars>>

NextSolid ==
    \/ RunTaskExample
    \/ DoDashboardIIFE
    \/ DoInvoke
    \/ DoProcessPayment
    \/ DoSaveUser

SpecSolid == InitSolidInputs /\ [][NextSolid]_vars

(***************************************************************************)
(* DraggableList: a drag puts text into the dataTransfer, a drop on a list  *)
(* item runs handleDrop.  Once the list cannot be rendered the component    *)
(* is gone and no handler runs any more.                                    *)
(***************************************************************************)
\* onDragStart={(e) => handleDragStart(e, item.id)}
HandleDragStart ==
    \E i \in DOMAIN dragItems :
        /\ Renders(dragItems)
        /\ dataTransfer' = [present |-> TRUE, data |-> ToString(dragItems[i].id)]
        /\ UNCHANGED <<dragItems, op, prev, repeatOf, listVars, listHistory,
                       sortVars, solidVars>>

\* a drag that starts elsewhere on the page or in another window
ExternalDragStart ==
    \E data \in ExternalDragData :
        /\ Renders(dragItems)
        /\ dataTransfer' = [present |-> TRUE, data |-> data]
        /\ UNCHANGED <<dragItems, op, prev, repeatOf, listVars, listHistory,
                       sortVars, solidVars>>

\* onDrop={(e) => handleDrop(e, item.id)}
HandleDrop ==
    \E i \in DOMAIN dragItems :
        /\ Renders(dragItems)
        /\ dataTransfer.present
        /\ dragItems' = handleDrop(dragItems, dataTransfer.data, dragItems[i].id)
        /\ dataTransfer' = NoData
        /\ op' = [name |-> "handleDrop", id |-> dragItems[i].id, text |-> dataTransfer.data]
        /\ prev' = dragItems
        /\ repeatOf' = -1
        /\ UNCHANGED <<listVars, listHistory, sortVars, solidVars>>

NextDrag ==
    \/ HandleDragStart
    \/ ExternalDragStart
    \/ HandleDrop

SpecDrag == Init /\ [][NextDrag]_vars

(***************************************************************************)
(* SortableList on its own, started from any bounded sequence of records.   *)
(***************************************************************************)
InitSort ==
    /\ InitLists
    /\ sortableItems \in SortableInputs
    /\ filtered = <<>>
    /\ InitDrag
    /\ InitSolid

\* {filterByCategory('fruit').map(...)}
DoFilterByCategory ==
    \E category \in CategoryInputs :
        /\ filtered' = filterByCategory(sortableItems, category)
        /\ op' = [name |-> "filterByCategory", id |-> 0, text |-> category]
        /\ prev' = sortableItems
        /\ repeatOf' = -1
        /\ UNCHANGED <<listVars, listHistory, sortableItems, dragVars, solidVars>>

\* onClick={sortItems}
DoSortItems ==
    /\ sortableItems' = sortItems(sortableItems)
    /\ op' = [name |-> "sortItems", id |-> 0, text |-> ""]
    /\ prev' = sortableItems
    /\ repeatOf' = -1
    /\ UNCHANGED <<listVars, listHistory, filtered, dragVars, solidVars>>

NextSort ==
    \/ DoFilterByCategory
    \/ DoSortItems

SpecSort == InitSort /\ [][NextSort]_vars

(***************************************************************************)
(* Helpers of the properties.                                               *)
(***************************************************************************)
\* the position, among the indices in keep, of index j
RankIn(keep, j) == Cardinality({i \in keep : i <= j})

\* T consists of the records of S at the indices in keep, in S's order
IsSelection(T, S, keep) ==
    /\ Len(T) = Cardinality(keep)
    /\ \A j \in keep : T[RankIn(keep, j)] = S[j]

\* the number of positions of S holding record r
Occurrences(S, r) == Cardinality({i \in DOMAIN S : S[i] = r})

\* S and T hold the same records the same number of times
IsPermutation(S, T) ==
    /\ Len(S) = Len(T)
    /\ \A i \in DOMAIN S : Occurrences(S, S[i]) = Occurrences(T, S[i])
    /\ \A i \in DOMAIN T : Occurrences(S, T[i]) = Occurrences(T, T[i])

(***************************************************************************)
(* C1: addItem on a non-empty sequence gives the appended record an         *)
(* identifier strictly greater than the identifier of every record that     *)
(* was already in the sequence.                                             *)
(***************************************************************************)
C1_NewIdGreaterThanAll ==
    (op.name = "addItem" /\ prev # <<>>) =>
        \A i \in DOMAIN prev : items[Len(items)].id > prev[i].id

(***************************************************************************)
(* C2: in every state reachable from [{id:1},{id:2}] by addItem, removeItem *)
(* and updateItem, the identifiers of the records are pairwise distinct.    *)
(***************************************************************************)
C2_IdsPairwiseDistinct ==
    \A i, j \in DOMAIN items : i # j => items[i].id # items[j].id

(***************************************************************************)
(* C3: addItem invoked on the empty sequence appends the record with        *)
(* identifier 1 and text "Item 1".                                          *)
(***************************************************************************)
C3_AddOnEmptyGivesOne ==
    (op.name = "addItem" /\ prev = <<>>) =>
        items = << [id |-> 1, text |-> "Item 1"] >>

(***************************************************************************)
(* C4: addItem only appends: the new sequence is one longer, its first      *)
(* records are the old sequence unchanged and in order, and the last        *)
(* record's text is "Item " followed by its own identifier.                 *)
(***************************************************************************)
C4_AddItemAppends ==
    op.name = "addItem" =>
        /\ Len(items) = Len(prev) + 1
        /\ \A i \in DOMAIN prev : items[i] = prev[i]
        /\ items[Len(items)].text = "Item " \o NumberToString(items[Len(items)].id)

C4_Witness ==
    /\ op.name = "addItem"
    /\ Len(prev) = 2
    /\ prev[1].text = "X"
    /\ items[3] = [id |-> 3, text |-> "Item 3"]

(***************************************************************************)
(* C5: removeItem(id) yields exactly the records whose identifier differs   *)
(* from id, in their original order and unchanged; when no record has that  *)
(* identifier the sequence stays as it was.                                 *)
(***************************************************************************)
C5_RemoveItemFilters ==
    op.name = "removeItem" =>
        /\ IsSelection(items, prev, {i \in DOMAIN prev : prev[i].id # op.id})
        /\ (op.id \notin IdSet(prev) => items = prev)

C5_Witness ==
    /\ op.name = "removeItem"
    /\ Len(prev) = 3
    /\ prev[2].id = op.id
    /\ Len(items) = 2

(***************************************************************************)
(* C6: updateItem(id, newText) and handleChange(id, newValue) on a sequence *)
(* that holds a record with identifier id keep the length and the           *)
(* identifiers in order, give the matching record the new text and leave    *)
(* every other record unchanged.                                            *)
(***************************************************************************)
C6_UpdateReplacesText ==
    (op.name \in {"updateItem", "handleChange"} /\ op.id \in IdSet(prev)) =>
        LET cur == IF op.name = "updateItem" THEN items ELSE formItems
        IN  /\ Len(cur) = Len(prev)
            /\ \A i \in DOMAIN prev :
                 /\ cur[i].id = prev[i].id
                 /\ prev[i].id = op.id => cur[i].text = op.text
                 /\ prev[i].id # op.id => cur[i] = prev[i]

C6_Witness ==
    /\ op.name = "updateItem"
    /\ Len(prev) = 3
    /\ prev[2].id = op.id
    /\ items[2].text = "Updated Item 2"
    /\ prev[2].text = "Item 2"

(***************************************************************************)
(* C7: updateItem(id, text) on a sequence with no record of identifier id   *)
(* leaves the sequence unchanged.                                           *)
(***************************************************************************)
C7_UpdateAbsentIsIdentity ==
    (op.name = "updateItem" /\ op.id \notin IdSet(prev)) => items = prev

C7_Witness ==
    /\ op.name = "updateItem"
    /\ op.id \notin IdSet(prev)
    /\ Len(prev) >= 2

(***************************************************************************)
(* C8: removeItem is idempotent: a second removeItem(id) straight after a   *)
(* removeItem(id) leaves the sequence as the first call left it.            *)
(***************************************************************************)
C8_RemoveItemIdempotent ==
    repeatOf >= 0 => items = prev

C8_Witness ==
    /\ repeatOf >= 1
    /\ op.name = "removeItem"
    /\ items # <<>>

(***************************************************************************)
(* C9: filterByCategory(category) returns the items of that category, all   *)
(* of them and no others, in their order in the source, and leaves the      *)
(* stored items as they were.                                               *)
(***************************************************************************)
C9_FilterByCategorySelects ==
    op.name = "filterByCategory" =>
        /\ \A i \in DOMAIN filtered : filtered[i].category = op.text
        /\ IsSelection(filtered, prev, {i \in DOMAIN prev : prev[i].category = op.text})
        /\ sortableItems = prev

C9_Witness ==
    /\ op.name = "filterByCategory"
    /\ Len(prev) = 3
    /\ prev[2].category # op.text
    /\ Len(filtered) = 2

(***************************************************************************)
(* C10: sortItems replaces the state with a permutation of the previous     *)
(* items that is in non-decreasing order of text under localeCompare.       *)
(***************************************************************************)
C10_SortItemsSortedPermutation ==
    op.name = "sortItems" =>
        /\ IsPermutation(sortableItems, prev)
        /\ \A i, j \in DOMAIN sortableItems :
             i < j => localeCompare(sortableItems[i].text, sortableItems[j].text) <= 0

C10_Witness ==
    /\ op.name = "sortItems"
    /\ Len(prev) = 3
    /\ sortableItems # prev
    /\ sortableItems[1].text = sortableItems[2].text

(***************************************************************************)
(* C11: from [{id:1,"Item 1"},{id:2,"Item 2"}] the calls addItem(),         *)
(* removeItem(1), updateItem(2,"X") pass through the states                 *)
(* [1,2,{id:3,"Item 3"}], then [{id:2,"Item 2"},{id:3,"Item 3"}], then      *)
(* [{id:2,"X"},{id:3,"Item 3"}].                                            *)
(***************************************************************************)
C11_ExampleTrace ==
    /\ step = 0 => items = << [id |-> 1, text |-> "Item 1"], [id |-> 2, text |-> "Item 2"] >>
    /\ step = 1 => items = << [id |-> 1, text |-> "Item 1"], [id |-> 2, text |-> "Item 2"],
                              [id |-> 3, text |-> "Item 3"] >>
    /\ step = 2 => items = << [id |-> 2, text |-> "Item 2"], [id |-> 3, text |-> "Item 3"] >>
    /\ step = 3 => items = << [id |-> 2, text |-> "X"], [id |-> 3, text |-> "Item 3"] >>

C11_Witness ==
    /\ step = 3
    /\ op = [name |-> "updateItem", id |-> 2, text |-> "X"]
    /\ Len(items) = 2

(***************************************************************************)
(* C12: every callback of DynamicList computes its replacement from the     *)
(* state the component holds when it is called, so no call's effect is      *)
(* lost, also when two callbacks run before the component renders again:    *)
(* addItem calls alone grow the sequence by one record each, addItem        *)
(* appends to the current state, removeItem drops only the records with     *)
(* its identifier from it and updateItem leaves the other records of it     *)
(* as they are.                                                             *)
(***************************************************************************)
C12_NoCallIsLost ==
    /\ addCalls >= 0 => Len(items) = Len(InitialItems) + addCalls
    /\ op.name = "addItem" =>
         /\ Len(items) = Len(prev) + 1
         /\ \A i \in DOMAIN prev : items[i] = prev[i]
    /\ op.name = "removeItem" =>
         IsSelection(items, prev, {i \in DOMAIN prev : prev[i].id # op.id})
    /\ op.name = "updateItem" =>
         /\ Len(items) = Len(prev)
         /\ \A i \in DOMAIN prev : prev[i].id # op.id => items[i] = prev[i]

(***************************************************************************)
(* C13: a not-implemented method called on an instance of a base class      *)
(* (Payment, Database, TaskRepository, NotificationService) raises its      *)
(* error; every class that extends one of them defines every method of its  *)
(* base, so processPayment, saveUser and the TaskService calls made with    *)
(* instances of the extending classes never raise a not-implemented error.  *)
(***************************************************************************)
C13_AbstractMethodsOverridden ==
    /\ \A cls \in ConcreteClasses : \A m \in OwnMethods(Superclass(cls)) :
         ResolveMethod(cls, m) = cls
    /\ call.arg.type = "class" =>
         /\ call.arg.value \in BaseClasses => call.error \in NotImplementedErrors
         /\ call.arg.value \in ConcreteClasses => call.error = "none"
    /\ (repoClass \in ConcreteClasses /\ notifierClass \in ConcreteClasses) =>
         error \notin NotImplementedErrors

C13_Witness ==
    /\ call.fn = "find"
    /\ call.arg = ClassArg("TaskRepository")
    /\ call.error = "Not implemented"
    /\ repoClass = "MongoTaskRepository"
    /\ notifierClass = "SlackNotificationService"
    /\ pc = "crashed"
    /\ Len(log) = 3

(***************************************************************************)
(* C14: DashboardIIFE maps every role to exactly one of three outputs: the  *)
(* admin greeting iff role is "admin", the user greeting iff role is        *)
(* "user", and the sign-in prompt for every other value, an absent role     *)
(* included.                                                                *)
(***************************************************************************)
C14_DashboardTotalMapping ==
    call.fn = "DashboardIIFE" =>
        /\ call.error = "none"
        /\ call.output \in {"Welcome, Admin!", "Welcome, User!", "Please sign in."}
        /\ call.output = "Welcome, Admin!" <=>
             (call.arg.type = "string" /\ call.arg.value = "admin")
        /\ call.output = "Welcome, User!" <=>
             (call.arg.type = "string" /\ call.arg.value = "user")
        /\ call.output = "Please sign in." <=>
             ~(call.arg.type = "string" /\ call.arg.value \in {"admin", "user"})

C14_Witness ==
    /\ call.fn = "DashboardIIFE"
    /\ call.arg.type = "undefined"
    /\ call.output = "Please sign in."

(***************************************************************************)
(* C15: completeTask(taskId), for a task created through createTask and a   *)
(* MongoTaskRepository, finds the task, marks it completed, saves it and    *)
(* then sends the "Task completed: <title>" notification, so the example    *)
(* run createTask, completeTask(newTask.id) ends without raising and        *)
(* reaches the final "demonstration completed" line.                        *)
(***************************************************************************)
C15_ExampleRunCompletes ==
    (repoClass = "MongoTaskRepository" /\ notifierClass = "EmailNotificationService") =>
        /\ pc # "crashed"
        /\ error = "none"
        /\ pc \in {"complete_save", "complete_notify", "final_log", "done"} =>
             task.completed = "true"
        /\ pc = "done" =>
             log = << "Saving task to MongoDB",
                      "Sending email to user@example.com: New task assigned: Learn SOLID Principles",
                      "Finding task in MongoDB",
                      "Saving task to MongoDB",
                      "Sending email to user@example.com: Task completed: Learn SOLID Principles",
                      "SOLID Principles demonstration completed!" >>

(***************************************************************************)
(* C16: handleDrop exchanges the positions of the dragged and the target    *)
(* record and changes nothing else: the result is a permutation of the      *)
(* previous sequence with the same length and the same records, whatever    *)
(* identifier the drop carries (one that matches no record included), and   *)
(* a record dropped on itself leaves the sequence unchanged.                *)
(***************************************************************************)
C16_HandleDropPermutes ==
    op.name = "handleDrop" =>
        /\ Len(dragItems) = Len(prev)
        /\ IsPermutation(dragItems, prev)
        /\ \A i \in DOMAIN dragItems : dragItems[i] # UndefinedItem
        /\ op.text = ToString(op.id) => dragItems = prev
        /\ \A d, t \in DOMAIN prev :
             (ToString(prev[d].id) = op.text /\ prev[t].id = op.id) =>
                 /\ dragItems[d] = prev[t]
                 /\ dragItems[t] = prev[d]
                 /\ \A k \in DOMAIN prev : k \notin {d, t} => dragItems[k] = prev[k]

====
